---- MODULE Spec2Model ----
(***************************************************************************)
(* The listbox state machine of packages/listbox/src/machine.ts, as it is  *)
(* run by the useMachine host: the machine's state and context, the event  *)
(* table of each state, the guards and the actions, and the @xstate/fsm    *)
(* rules that apply them (first transition whose cond holds, assign        *)
(* actions folded over the context in order, the other actions executed    *)
(* afterwards on the new context).                                        *)
(*                                                                         *)
(* Strings are sequences of one-character strings. JavaScript null is Null *)
(* for a value, NullEl for an element and NullQuery for typeaheadQuery.    *)
(***************************************************************************)
EXTENDS Naturals, Sequences, FiniteSets

VARIABLES
    state,      \* service.state.value: the machine's current state
    ctx,        \* service.state.context
    current,    \* the snapshot the hook has published to the renderer
    ev,         \* the event being delivered (NoEvent once its snapshot is published)
    calls,      \* arguments event.callback was invoked with during the delivery
    effects,    \* the non-assign actions executed during the delivery, in order
    frames,     \* callbacks passed to requestAnimationFrame that have not run yet
    focusCalls  \* the nodes the animation frame that has just run called focus()
                \* on, in order; emptied by the next delivery

vars == <<state, ctx, current, ev, calls, effects, frames, focusCalls>>

----------------------------------------------------------------------------
(* Bounds of the model *)

MaxValue == 2        \* option values are 1..MaxValue
MaxTypeahead == 2    \* typeaheadQuery is not grown beyond this length
MaxQueryLen == 2     \* longest query of an UpdateAfterTypeahead event
MaxFrames == 2       \* callbacks requested before the next animation frame runs

----------------------------------------------------------------------------
(* States and events *)

Idle == "IDLE"
Navigating == "NAVIGATING"
NavigatingWithKeys == "NAVIGATING_WITH_KEYS"
Searching == "SEARCHING"
Interacting == "INTERACTING"

ListboxStates == {Idle, Navigating, NavigatingWithKeys, Searching, Interacting}

ButtonMouseDown == "BUTTON_MOUSE_DOWN"
ButtonMouseUp == "BUTTON_MOUSE_UP"
Blur == "BLUR"
ClearNavSelection == "CLEAR_NAV_SELECTION"
ClearTypeahead == "CLEAR_TYPEAHEAD"
GetDerivedData == "GET_DERIVED_DATA"
KeyDownEscape == "KEY_DOWN_ESCAPE"
KeyDownEnter == "KEY_DOWN_ENTER"
KeyDownSpace == "KEY_DOWN_SPACE"
KeyDownNavigate == "KEY_DOWN_NAVIGATE"
KeyDownSearch == "KEY_DOWN_SEARCH"
KeyDownTab == "KEY_DOWN_TAB"
KeyDownShiftTab == "KEY_DOWN_SHIFT_TAB"
Navigate == "NAVIGATE"
OptionMouseEnter == "OPTION_MOUSE_ENTER"
ValueChange == "VALUE_CHANGE"
OptionStartClick == "OPTION_START_CLICK"
OptionFinishClick == "OPTION_FINISH_CLICK"
PopoverPointerDown == "POPOVER_POINTER_DOWN"
PopoverPointerUp == "POPOVER_POINTER_UP"
UpdateAfterTypeahead == "UPDATE_AFTER_TYPEAHEAD"

ListboxEvents ==
    { ButtonMouseDown, ButtonMouseUp, Blur, ClearNavSelection, ClearTypeahead,
      GetDerivedData, KeyDownEscape, KeyDownEnter, KeyDownSpace, KeyDownNavigate,
      KeyDownSearch, KeyDownTab, KeyDownShiftTab, Navigate, OptionMouseEnter,
      ValueChange, OptionStartClick, OptionFinishClick, PopoverPointerDown,
      PopoverPointerUp, UpdateAfterTypeahead }

----------------------------------------------------------------------------
(* Values, strings, elements *)

Null == 0
Values == 1..MaxValue

NullQuery == <<"null">>
NullEl == "null"

\* The characters typed into queries; option labels also use "A", "a" and "p".
\* "A" and "B" are the upper-case letters.
Chars == {"b", "B"}

Lower(c) == IF c = "A" THEN "a" ELSE IF c = "B" THEN "b" ELSE c

toLowerCase(s) == [i \in DOMAIN s |-> Lower(s[i])]

startsWith(s, prefix) ==
    /\ Len(prefix) <= Len(s)
    /\ SubSeq(s, 1, Len(prefix)) = prefix

RECURSIVE StringsUpTo(_)
StringsUpTo(n) ==
    IF n = 0 THEN {<<>>}
    ELSE LET shorter == StringsUpTo(n - 1)
         IN  shorter \cup {Append(s, c) : s \in shorter, c \in Chars}

\* The DOM the widget lives in: the toggle button, the popover with the list,
\* the option elements and one more focusable child inside it, and the rest
\* of the page.
\* What a Blur may name as relatedTarget, and what the document may report
\* as active meanwhile.
RelatedTargets == {NullEl, "list", "o1", "body"}
ActiveElements == {"list", "inner", "o1", "body"}

\* popover.contains(node)
contains(popover, node) ==
    popover # NullEl /\ node \in {"popover", "list", "inner", "o1", "o2", "o3"}

\* The element handles unwrapRefs reads at each send.
Mounted == [button |-> "button", list |-> "list", popover |-> "popover"]
PopoverMissing == [button |-> "button", list |-> "list", popover |-> NullEl]

EventRefs == {Mounted, PopoverMissing}

----------------------------------------------------------------------------
(* Option descriptors and the lists of them the renderer registers *)

Option(v, l, d, e) == [value |-> v, label |-> l, disabled |-> d, element |-> e]

\* "Ap" (value 1) then "Ba" (value 2)
AppleBanana ==
    << Option(1, <<"A", "p">>, FALSE, "o1"), Option(2, <<"B", "a">>, FALSE, "o2") >>

\* a disabled "ba" (value 1) ahead of an enabled "Ba" (value 2) ahead of an
\* enabled "bb" (value 1)
DisabledFirst ==
    << Option(1, <<"b", "a">>, TRUE, "o1"), Option(2, <<"B", "a">>, FALSE, "o2"),
       Option(1, <<"b", "b">>, FALSE, "o3") >>

OptionLists == { <<>>, AppleBanana, DisabledFirst }

----------------------------------------------------------------------------
(* Context *)

ContextRefs(b, i, l, p) == [button |-> b, input |-> i, list |-> l, popover |-> p]

InitialContext(value) ==
    [ value |-> value,
      refs |-> ContextRefs(NullEl, NullEl, NullEl, NullEl),
      options |-> <<>>,
      navigationValue |-> Null,
      typeaheadQuery |-> NullQuery ]

\* The payload of GetDerivedData: a partial context, `has` naming the fields
\* it carries; its refs are themselves partial.
RefsPatch(has, b, i, l, p) ==
    [has |-> has, button |-> b, input |-> i, list |-> l, popover |-> p]

NoRefsPatch == RefsPatch({}, NullEl, NullEl, NullEl, NullEl)

NoData ==
    [ has |-> {}, value |-> Null, refs |-> NoRefsPatch, options |-> <<>>,
      navigationValue |-> Null, typeaheadQuery |-> NullQuery ]

DerivedData ==
    { [NoData EXCEPT !.has = {"options"}, !.options = l] : l \in OptionLists }
    \cup { [NoData EXCEPT !.has = {"value"}, !.value = v] : v \in Values }
    \cup { [NoData EXCEPT !.has = {"navigationValue"}, !.navigationValue = 1],
           [NoData EXCEPT !.has = {"typeaheadQuery"}, !.typeaheadQuery = <<"b">>],
           [NoData EXCEPT !.has = {"refs"},
                          !.refs = RefsPatch({"list"}, NullEl, NullEl, "list", NullEl)],
           [NoData EXCEPT !.has = {"refs"},
                          !.refs = RefsPatch({"button"}, "button", NullEl, NullEl, NullEl)] }

----------------------------------------------------------------------------
(* Events: one record shape for all of them; a field an event type does not
   carry holds the default below. activeElement is what the owner document
   reports as its active element while the event is handled. *)

Event(type) ==
    [ type |-> type, value |-> Null, query |-> <<>>, disabled |-> FALSE,
      callback |-> FALSE, relatedTarget |-> NullEl, activeElement |-> "body",
      refs |-> Mounted, data |-> NoData ]

NoEvent == Event("none")

BareEvents ==
    { Event(t) : t \in { ButtonMouseDown, ButtonMouseUp, ClearNavSelection,
                         ClearTypeahead, KeyDownEscape, KeyDownTab, KeyDownShiftTab,
                         OptionMouseEnter, OptionStartClick, PopoverPointerDown,
                         PopoverPointerUp } }

BlurEvents ==
    { [Event(Blur) EXCEPT !.relatedTarget = rt, !.activeElement = ae, !.refs = r] :
        rt \in RelatedTargets, ae \in ActiveElements, r \in EventRefs }

SelectEvents ==
    { [Event(t) EXCEPT !.value = v, !.disabled = d, !.callback = cb] :
        t \in {OptionFinishClick, KeyDownEnter, KeyDownSpace},
        v \in Values, d \in BOOLEAN, cb \in BOOLEAN }

ValueChangeEvents ==
    { [Event(ValueChange) EXCEPT !.value = v, !.callback = cb] :
        v \in Values, cb \in BOOLEAN }

NavigateEvents ==
    { [Event(t) EXCEPT !.value = v] : t \in {Navigate, KeyDownNavigate}, v \in Values }

SearchEvents ==
    { [Event(KeyDownSearch) EXCEPT !.query = <<c>>] : c \in Chars }

TypeaheadEvents ==
    { [Event(UpdateAfterTypeahead) EXCEPT !.query = q, !.callback = cb] :
        q \in StringsUpTo(MaxQueryLen), cb \in BOOLEAN }

DerivedDataEvents ==
    { [Event(GetDerivedData) EXCEPT !.data = d] : d \in DerivedData }

----------------------------------------------------------------------------
(* Actions and conditions *)

clearNavigationValue(data, event) == [data EXCEPT !.navigationValue = Null]

clearTypeaheadQuery(data, event) == [data EXCEPT !.typeaheadQuery = NullQuery]

\* Faulty variant: commits the highlighted option instead of the event's value.
assignValueFromNavigation(data, event) == [data EXCEPT !.value = data.navigationValue]

assignValue(data, event) == [data EXCEPT !.value = event.value]

\* Faulty variant: navigating also commits the navigated value.
navigateAndCommit(data, event) ==
    [data EXCEPT !.navigationValue = event.value, !.value = event.value]

navigate(data, event) == [data EXCEPT !.navigationValue = event.value]

\* Faulty variant: without a committed value the old highlight is kept.
navigateFromCurrentValueIfAny(data, event) ==
    [data EXCEPT !.navigationValue =
        IF data.value = Null THEN data.navigationValue ELSE data.value]

navigateFromCurrentValue(data, event) == [data EXCEPT !.navigationValue = data.value]

\* Faulty variant: looks only at the active element, never at relatedTarget.
listboxLostFocusIgnoringRelatedTarget(data, event) ==
    /\ event.type = Blur
    /\ event.activeElement # event.refs.list
    /\ event.refs.popover # NullEl
    /\ ~contains(event.refs.popover, event.activeElement)

listboxLostFocus(data, event) ==
    /\ event.type = Blur
    /\ event.activeElement # event.refs.list
    /\ event.refs.popover # NullEl
    /\ ~contains(event.refs.popover,
                 IF event.relatedTarget # NullEl THEN event.relatedTarget
                                                 ELSE event.activeElement)

optionIsActive(data, event) ==
    \E i \in DOMAIN data.options : data.options[i].element = event.activeElement

\* Faulty variant: falls back to the first option when none carries the value.
getNavigationNodeOrFirst(data, value) ==
    LET found == { i \in DOMAIN data.options : data.options[i].value = value }
    IN  IF data.options = <<>> THEN NullEl
        ELSE IF found = {} THEN data.options[1].element
        ELSE data.options[CHOOSE i \in found : \A j \in found : i <= j].element

\* data.options.find(option => value === option.value)?.element: the element
\* of the first option carrying the value, NullEl for undefined.
getNavigationNodeFromValue(data, value) ==
    LET found == { i \in DOMAIN data.options : data.options[i].value = value }
    IN  IF found = {} THEN NullEl
        ELSE data.options[CHOOSE i \in found : \A j \in found : i <= j].element

\* focusNavOption hands requestAnimationFrame a callback closed over `data`,
\* the context the action was executed with; of it the callback reads
\* options and navigationValue.
focusNavOption(data, event) ==
    [options |-> data.options, navigationValue |-> data.navigationValue]

\* The callback of focusNavOption when its frame comes: the node it calls
\* focus() on, NullEl when it finds none and does nothing.
focusNavOptionCallback(data) == getNavigationNodeFromValue(data, data.navigationValue)

\* Faulty variant: does not look at event.disabled.
optionIsSelectableIgnoringDisabled(data, event) == data.navigationValue # Null

optionIsSelectable(data, event) ==
    IF event.disabled THEN FALSE ELSE data.navigationValue # Null

\* What event.callback is called with by selectOption.
selectOption(data, event) == IF event.callback THEN <<event.value>> ELSE <<>>

\* Faulty variant: puts the typed characters in front of the query.
setTypeaheadPrepending(data, event) ==
    [data EXCEPT !.typeaheadQuery =
        event.query
            \o (IF data.typeaheadQuery = NullQuery THEN <<>> ELSE data.typeaheadQuery)]

setTypeahead(data, event) ==
    [data EXCEPT !.typeaheadQuery =
        (IF data.typeaheadQuery = NullQuery THEN <<>> ELSE data.typeaheadQuery)
            \o event.query]

clearTypeahead(data, event) == [data EXCEPT !.typeaheadQuery = <<>>]

\* Faulty variant: compares label and query without lower-casing them.
findOptionCaseSensitive(options, string) ==
    IF string = <<>> THEN 0
    ELSE LET found == { i \in DOMAIN options :
                          /\ ~options[i].disabled
                          /\ options[i].label # <<>>
                          /\ startsWith(options[i].label, string) }
         IN  IF found = {} THEN 0
             ELSE CHOOSE i \in found : \A j \in found : i <= j

\* options.find(...) || null: the index of the option found, 0 for null.
findOptionFromTypeahead(options, string) ==
    IF string = <<>> THEN 0
    ELSE LET found == { i \in DOMAIN options :
                          /\ ~options[i].disabled
                          /\ options[i].label # <<>>
                          /\ startsWith(toLowerCase(options[i].label),
                                        toLowerCase(string)) }
         IN  IF found = {} THEN 0
             ELSE CHOOSE i \in found : \A j \in found : i <= j

\* The option a typeahead event resolves to in `data`, 0 for none.
typeaheadMatch(data, event) ==
    IF event.type = UpdateAfterTypeahead /\ event.query # <<>>
    THEN LET match == findOptionFromTypeahead(data.options, event.query)
         IN  IF match # 0 /\ ~data.options[match].disabled THEN match ELSE 0
    ELSE 0

setValueFromTypeahead(data, event) ==
    LET match == typeaheadMatch(data, event)
    IN  IF match # 0 THEN [data EXCEPT !.value = data.options[match].value]
        ELSE data

\* Faulty variant: the callback is called with the value held before the match.
setValueFromTypeaheadCallbackStale(data, event) ==
    LET match == typeaheadMatch(data, event)
    IN  IF match # 0 /\ event.callback THEN <<data.value>> ELSE <<>>

\* What event.callback is called with inside setValueFromTypeahead.
setValueFromTypeaheadCallback(data, event) ==
    LET match == typeaheadMatch(data, event)
    IN  IF match # 0 /\ event.callback THEN <<data.options[match].value>> ELSE <<>>

setNavSelectionFromTypeahead(data, event) ==
    LET match == typeaheadMatch(data, event)
    IN  IF match # 0 THEN [data EXCEPT !.navigationValue = data.options[match].value]
        ELSE data

\* Faulty variant: the payload's refs replace the context's refs wholesale.
assignDerivedDataReplacingRefs(data, event) ==
    LET d == event.data
        field(k) == IF k \in d.has THEN d[k] ELSE data[k]
        ref(k) == IF "refs" \in d.has
                  THEN (IF k \in d.refs.has THEN d.refs[k] ELSE NullEl)
                  ELSE data.refs[k]
    IN  [ value |-> field("value"),
          options |-> field("options"),
          navigationValue |-> field("navigationValue"),
          typeaheadQuery |-> field("typeaheadQuery"),
          refs |-> ContextRefs(ref("button"), ref("input"), ref("list"), ref("popover")) ]

\* The assign of commonEvents[GetDerivedData]: {...ctx, ...event.data, refs: {...}}
assignDerivedData(data, event) ==
    LET d == event.data
        field(k) == IF k \in d.has THEN d[k] ELSE data[k]
        ref(k) == IF "refs" \in d.has /\ k \in d.refs.has THEN d.refs[k] ELSE data.refs[k]
    IN  [ value |-> field("value"),
          options |-> field("options"),
          navigationValue |-> field("navigationValue"),
          typeaheadQuery |-> field("typeaheadQuery"),
          refs |-> ContextRefs(ref("button"), ref("input"), ref("list"), ref("popover")) ]

AssignActions ==
    { "clearNavigationValue", "clearTypeaheadQuery", "assignValue", "navigate",
      "navigateFromCurrentValue", "setTypeahead", "clearTypeahead",
      "setValueFromTypeahead", "setNavSelectionFromTypeahead", "assignDerivedData" }

\* assign(...)'s assignment applied to the context
assign(action, data, event) ==
    CASE action = "clearNavigationValue" -> clearNavigationValue(data, event)
      [] action = "clearTypeaheadQuery" -> clearTypeaheadQuery(data, event)
      [] action = "assignValue" -> assignValue(data, event)
      [] action = "navigate" -> navigate(data, event)
      [] action = "navigateFromCurrentValue" -> navigateFromCurrentValue(data, event)
      [] action = "setTypeahead" -> setTypeahead(data, event)
      [] action = "clearTypeahead" -> clearTypeahead(data, event)
      [] action = "setValueFromTypeahead" -> setValueFromTypeahead(data, event)
      [] action = "setNavSelectionFromTypeahead" -> setNavSelectionFromTypeahead(data, event)
      [] action = "assignDerivedData" -> assignDerivedData(data, event)

cond(name, data, event) ==
    CASE name = "listboxLostFocus" -> listboxLostFocus(data, event)
      [] name = "optionIsActive" -> optionIsActive(data, event)
      [] name = "optionIsSelectable" -> optionIsSelectable(data, event)
      [] name = "none" -> TRUE

----------------------------------------------------------------------------
(* The machine: for each state, the transitions it declares for an event
   type, <<>> when it declares none. A transition without a target keeps the
   state. In {...commonEvents, ...openEvents, <own entries>} a later entry
   replaces an earlier one of the same type, so a state's own entries are
   looked up first, then openEvents, then commonEvents. *)

NoTarget == "undefined"

Transition(target, guard, actions) ==
    [target |-> target, cond |-> guard, actions |-> actions]

\* Faulty variant: ValueChange assigns the value without calling back.
commonEventsValueChangeSilent(type) ==
    CASE type = GetDerivedData ->
            << Transition(NoTarget, "none", <<"assignDerivedData">>) >>
      [] type = ValueChange ->
            << Transition(NoTarget, "none", <<"assignValue">>) >>
      [] OTHER -> <<>>

commonEvents(type) ==
    CASE type = GetDerivedData ->
            << Transition(NoTarget, "none", <<"assignDerivedData">>) >>
      [] type = ValueChange ->
            << Transition(NoTarget, "none", <<"assignValue", "selectOption">>) >>
      [] OTHER -> <<>>

openEvents(type) ==
    CASE type = ClearNavSelection ->
            << Transition(NoTarget, "none", <<"clearNavigationValue", "focusList">>) >>
      [] type \in {OptionFinishClick, KeyDownEnter, KeyDownSpace} ->
            << Transition(Idle, "optionIsSelectable",
                          <<"assignValue", "selectOption", "focusButton",
                            "clearTypeaheadQuery">>) >>
      [] type \in {ButtonMouseDown, KeyDownEscape} ->
            << Transition(Idle, "none", <<"focusButton">>) >>
      [] OTHER -> commonEvents(type)

\* Faulty variant: the optionIsActive branch is tried before listboxLostFocus.
blurTransitionsActiveFirst(active) ==
    << Transition(active, "optionIsActive", <<>>),
       Transition(Idle, "listboxLostFocus", <<"clearTypeaheadQuery">>),
       Transition(Interacting, "none", <<"clearTypeaheadQuery">>) >>

\* The three-way Blur cascade of an open state; `active` is the target of
\* the optionIsActive branch.
blurTransitions(active) ==
    << Transition(Idle, "listboxLostFocus", <<"clearTypeaheadQuery">>),
       Transition(active, "optionIsActive", <<>>),
       Transition(Interacting, "none", <<"clearTypeaheadQuery">>) >>

\* Faulty variant: Navigate keeps the current state.
navigateTransitionStaying ==
    << Transition(NoTarget, "none", <<"navigate", "focusNavOption">>) >>

navigateTransition ==
    << Transition(Navigating, "none", <<"navigate", "focusNavOption">>) >>

\* Faulty variant: KeyDownNavigate leaves the typeahead query alone.
keyDownNavigateKeepingQuery ==
    << Transition(NavigatingWithKeys, "none", <<"navigate", "focusNavOption">>) >>

keyDownNavigateTransition ==
    << Transition(NavigatingWithKeys, "none",
                  <<"navigate", "focusNavOption", "clearTypeaheadQuery">>) >>

\* Faulty variant: a search key moves to Searching.
keyDownSearchToSearching ==
    << Transition(Searching, "none", <<"setTypeahead">>) >>

\* Faulty variant: a search key keeps the current state.
keyDownSearchStaying ==
    << Transition(NoTarget, "none", <<"setTypeahead">>) >>

keyDownSearchTransition ==
    << Transition(NavigatingWithKeys, "none", <<"setTypeahead">>) >>

\* Faulty variant: the open states resolve the typeahead into value, as Idle does.
updateAfterTypeaheadCommitting ==
    << Transition(NoTarget, "none", <<"setValueFromTypeahead", "focusNavOption">>) >>

updateAfterTypeaheadTransition ==
    << Transition(NoTarget, "none", <<"setNavSelectionFromTypeahead", "focusNavOption">>) >>

clearTypeaheadTransition ==
    << Transition(NoTarget, "none", <<"clearTypeahead">>) >>

IdleOn(type) ==
    CASE type = ButtonMouseDown ->
            << Transition(Navigating, "none", <<"navigateFromCurrentValue", "focusButton">>) >>
      [] type = KeyDownSpace ->
            << Transition(NavigatingWithKeys, "none",
                          <<"navigateFromCurrentValue", "focusNavOption">>) >>
      [] type = KeyDownSearch -> << Transition(Idle, "none", <<"setTypeahead">>) >>
      [] type = UpdateAfterTypeahead ->
            << Transition(Idle, "none", <<"setValueFromTypeahead">>) >>
      [] type = ClearTypeahead -> << Transition(Idle, "none", <<"clearTypeahead">>) >>
      [] type = KeyDownNavigate -> keyDownNavigateTransition
      [] OTHER -> commonEvents(type)

InteractingOn(type) ==
    CASE type = Blur -> blurTransitions(Navigating)
      [] type = Navigate -> navigateTransition
      [] type = KeyDownNavigate -> keyDownNavigateTransition
      [] OTHER -> openEvents(type)

NavigatingOn(type) ==
    CASE type = Blur -> blurTransitions(Navigating)
      [] type = ButtonMouseUp ->
            << Transition(NoTarget, "none",
                          <<"focusList", "navigateFromCurrentValue", "focusNavOption">>) >>
      [] type = Navigate -> navigateTransition
      [] type = KeyDownNavigate -> keyDownNavigateTransition
      [] type = KeyDownSearch -> keyDownSearchTransition
      [] type = UpdateAfterTypeahead -> updateAfterTypeaheadTransition
      [] type = ClearTypeahead -> clearTypeaheadTransition
      [] OTHER -> openEvents(type)

NavigatingWithKeysOn(type) ==
    CASE type = Blur -> blurTransitions(NavigatingWithKeys)
      [] type = Navigate -> navigateTransition
      [] type = KeyDownNavigate -> keyDownNavigateTransition
      [] type = KeyDownSearch -> keyDownSearchTransition
      [] type = UpdateAfterTypeahead -> updateAfterTypeaheadTransition
      [] type = ClearTypeahead -> clearTypeaheadTransition
      [] OTHER -> openEvents(type)

SearchingOn(type) ==
    CASE type = Blur -> blurTransitions(Searching)
      [] type = Navigate ->
            << Transition(Navigating, "none",
                          <<"navigate", "focusNavOption", "clearTypeaheadQuery">>) >>
      [] type = KeyDownNavigate -> keyDownNavigateTransition
      [] type = KeyDownSearch -> keyDownSearchTransition
      [] type = UpdateAfterTypeahead -> updateAfterTypeaheadTransition
      [] type = ClearTypeahead -> clearTypeaheadTransition
      [] OTHER -> openEvents(type)

\* createListboxMachine(...).states[value].on[type]
states(value, type) ==
    CASE value = Idle -> IdleOn(type)
      [] value = Interacting -> InteractingOn(type)
      [] value = Navigating -> NavigatingOn(type)
      [] value = NavigatingWithKeys -> NavigatingWithKeysOn(type)
      [] value = Searching -> SearchingOn(type)

----------------------------------------------------------------------------
(* How the machine is run: machine.transition and the service's send *)

\* The assign actions of a transition, applied in order; the callback calls
\* made from inside an assignment are collected on the way.
RECURSIVE handleActions(_, _, _)
handleActions(actions, context, event) ==
    IF actions = <<>> THEN [context |-> context, calls |-> <<>>]
    ELSE LET action == Head(actions)
             called == IF action = "setValueFromTypeahead"
                       THEN setValueFromTypeaheadCallback(context, event)
                       ELSE <<>>
             nextContext == IF action \in AssignActions
                            THEN assign(action, context, event)
                            ELSE context
             rest == handleActions(Tail(actions), nextContext, event)
         IN  [context |-> rest.context, calls |-> called \o rest.calls]

\* The actions left for the service to execute after the transition.
RECURSIVE nonAssignActions(_)
nonAssignActions(actions) ==
    IF actions = <<>> THEN <<>>
    ELSE IF Head(actions) \in AssignActions THEN nonAssignActions(Tail(actions))
    ELSE <<Head(actions)>> \o nonAssignActions(Tail(actions))

\* executeStateActions: exec(state.context, event) of each remaining action;
\* the result is what event.callback was called with.
RECURSIVE executeStateActions(_, _, _)
executeStateActions(actions, context, event) ==
    IF actions = <<>> THEN <<>>
    ELSE (IF Head(actions) = "selectOption" THEN selectOption(context, event) ELSE <<>>)
         \o executeStateActions(Tail(actions), context, event)

\* The callbacks the executed actions hand to requestAnimationFrame.
RECURSIVE requestAnimationFrame(_, _, _)
requestAnimationFrame(actions, context, event) ==
    IF actions = <<>> THEN <<>>
    ELSE (IF Head(actions) = "focusNavOption" THEN <<focusNavOption(context, event)>>
          ELSE <<>>)
         \o requestAnimationFrame(Tail(actions), context, event)

\* The for loop of machine.transition: the first transition, from index i
\* on, whose cond holds, as a one-element sequence; <<>> when there is none.
RECURSIVE firstMatch(_, _, _, _)
firstMatch(transitions, i, context, event) ==
    IF i > Len(transitions) THEN <<>>
    ELSE IF cond(transitions[i].cond, context, event) THEN <<transitions[i]>>
    ELSE firstMatch(transitions, i + 1, context, event)

\* The state a transition gives: its target, the context `handled` by its
\* assign actions, and its other actions, executed on that context.
nextState(value, target, handled, actions, event) ==
    [ value |-> IF target = NoTarget THEN value ELSE target,
      context |-> handled.context,
      calls |-> handled.calls \o executeStateActions(actions, handled.context, event),
      actions |-> actions,
      frames |-> requestAnimationFrame(actions, handled.context, event) ]

\* Faulty variant: an event the state does not declare closes the listbox.
takeClosingOnMiss(value, context, event, matched) ==
    IF matched = <<>>
    THEN [ value |-> Idle, context |-> clearTypeaheadQuery(context, event),
           calls |-> <<>>, actions |-> <<>>, frames |-> <<>> ]
    ELSE nextState(value, matched[1].target,
                   handleActions(matched[1].actions, context, event),
                   nonAssignActions(matched[1].actions), event)

take(value, context, event, matched) ==
    IF matched = <<>>
    THEN [ value |-> value, context |-> context, calls |-> <<>>, actions |-> <<>>,
           frames |-> <<>> ]
    ELSE nextState(value, matched[1].target,
                   handleActions(matched[1].actions, context, event),
                   nonAssignActions(matched[1].actions), event)

\* machine.transition(state, event), followed by the execution of the
\* transition's actions.
transition(value, context, event) ==
    take(value, context, event,
         firstMatch(states(value, event.type), 1, context, event))

\* The snapshot of the service the hook hands to the renderer.
Snapshot == [value |-> state, context |-> ctx]

\* typeaheadQuery after `event` is within the model's bound.
WithinBounds(event) ==
    event.type = KeyDownSearch =>
        Len(IF ctx.typeaheadQuery = NullQuery THEN <<>> ELSE ctx.typeaheadQuery)
            + Len(event.query) <= MaxTypeahead

\* The previous event's snapshot has been published.
Ready == ev = NoEvent

\* send(rawEvent): the event, with the live element handles, goes to the
\* service, which takes the transition and executes its actions.
send(event) ==
    /\ WithinBounds(event)
    /\ \E next \in {transition(state, ctx, event)} :
           /\ state' = next.value
           /\ ctx' = next.context
           /\ calls' = next.calls
           /\ effects' = next.actions
           /\ Len(frames) + Len(next.frames) <= MaxFrames
           /\ frames' = frames \o next.frames
    /\ ev' = event
    /\ focusCalls' = <<>>
    /\ UNCHANGED current

\* The subscription: the new snapshot replaces the one the renderer holds.
setCurrent ==
    /\ ev # NoEvent
    /\ current' = Snapshot
    /\ ev' = NoEvent
    /\ calls' = <<>>
    /\ effects' = <<>>
    /\ UNCHANGED <<state, ctx, frames, focusCalls>>

\* The callbacks run in the order they were requested: the nodes focus() is
\* called on (node && node.focus()).
RECURSIVE runCallbacks(_)
runCallbacks(callbacks) ==
    IF callbacks = <<>> THEN <<>>
    ELSE LET node == focusNavOptionCallback(Head(callbacks))
         IN  (IF node # NullEl THEN <<node>> ELSE <<>>) \o runCallbacks(Tail(callbacks))

\* An animation frame: the browser runs every callback requested since the
\* last one. It comes between two deliveries, never inside one.
animationFrame ==
    /\ Ready
    /\ frames # <<>>
    /\ focusCalls' = runCallbacks(frames)
    /\ frames' = <<>>
    /\ UNCHANGED <<state, ctx, current, ev, calls, effects>>

\* Every requested callback has run.
Painted == frames = <<>>

sendBare == Ready /\ \E event \in BareEvents : send(event)
sendBlur == Ready /\ \E event \in BlurEvents : send(event)
sendSelect == Ready /\ \E event \in SelectEvents : send(event)
sendValueChange == Ready /\ \E event \in ValueChangeEvents : send(event)
sendNavigate == Ready /\ \E event \in NavigateEvents : send(event)
sendSearch == Ready /\ \E event \in SearchEvents : send(event)
sendTypeahead == Ready /\ \E event \in TypeaheadEvents : send(event)
sendDerivedData == Ready /\ \E event \in DerivedDataEvents : send(event)

Started(value, initial) ==
    /\ state = initial
    /\ ctx = InitialContext(value)
    /\ current = [value |-> initial, context |-> InitialContext(value)]
    /\ ev = NoEvent
    /\ calls = <<>>
    /\ effects = <<>>
    /\ frames = <<>>
    /\ focusCalls = <<>>

\* interpret(createListboxMachine({value})).start()
Init == \E value \in {Null} \cup Values : Started(value, Idle)

\* The machine's table applied from each of its states in turn:
\* machine.transition(<state name>, event) starts from the initial context.
InitAnyState ==
    \E value \in {Null} \cup Values, initial \in ListboxStates : Started(value, initial)

\* The machine reads neither frames nor focusCalls, so when the frames run
\* has no bearing on its state and context. Next lets each event arrive after
\* the frame its predecessor asked for; NextBetweenFrames lets the pointer,
\* navigation and registration events arrive faster than the browser paints,
\* up to MaxFrames callbacks pending.
Next ==
    \/ Painted /\ sendBare
    \/ Painted /\ sendBlur
    \/ Painted /\ sendSelect
    \/ Painted /\ sendValueChange
    \/ Painted /\ sendNavigate
    \/ Painted /\ sendSearch
    \/ Painted /\ sendTypeahead
    \/ Painted /\ sendDerivedData
    \/ setCurrent
    \/ animationFrame

NextBetweenFrames ==
    \/ sendBare
    \/ sendNavigate
    \/ sendDerivedData
    \/ setCurrent
    \/ animationFrame

Spec == Init /\ [][Next]_vars

SpecAnyState == InitAnyState /\ [][Next]_vars

SpecBetweenFrames == Init /\ [][NextBetweenFrames]_vars

----------------------------------------------------------------------------
(* The claims. While an event is being delivered (ev # NoEvent), `current`
   still holds the snapshot from before it, and state, ctx, calls and
   effects hold what its transition produced. *)

Open == {Interacting, Navigating, NavigatingWithKeys, Searching}

SelectTypes == {OptionFinishClick, KeyDownEnter, KeyDownSpace}

before == current.context

\* The node lies in the popover's subtree of the document.
InsidePopover(node) == node \in {"popover", "list", "inner", "o1", "o2", "o3"}

\* What event.callback, when the event has one, must have been called with.
CalledOnceWith(value) == calls = IF ev.callback THEN <<value>> ELSE <<>>

\* label starts with query, compared character by character without case
PrefixIgnoringCase(label, query) ==
    /\ Len(query) <= Len(label)
    /\ \A k \in 1..Len(query) : Lower(label[k]) = Lower(query[k])

EnabledMatch(options, query, i) ==
    /\ i \in DOMAIN options
    /\ ~options[i].disabled
    /\ PrefixIgnoringCase(options[i].label, query)

\* Option i is the first option of the list, in order, that is enabled and
\* whose label starts with the query.
FirstEnabledMatch(options, query, i) ==
    /\ query # <<>>
    /\ EnabledMatch(options, query, i)
    /\ \A j \in 1..(i - 1) : ~EnabledMatch(options, query, j)

NoEnabledMatch(options, query) ==
    query = <<>> \/ \A i \in DOMAIN options : ~EnabledMatch(options, query, i)

\* C1 as stated: in an open state, a Blur whose relatedTarget is outside the
\* popover and is not the list moves the machine to Idle and clears
\* typeaheadQuery, whatever element the document reports as active.
C1_AsStated ==
    ( /\ ev.type = Blur
      /\ current.value \in Open
      /\ ev.refs.popover # NullEl
      /\ ev.relatedTarget # NullEl
      /\ ~InsidePopover(ev.relatedTarget)
      /\ ev.relatedTarget # "list" )
    => (state = Idle /\ ctx.typeaheadQuery = NullQuery)

\* C1, amended: in an open state, a Blur whose relatedTarget is outside the
\* popover and is not the list moves the machine to Idle and clears
\* typeaheadQuery, provided the popover handle is present and the document's
\* active element is not the list; the rest of the context is unchanged.
C1_BlurOutsideClosesUnlessListActive ==
    ( /\ ev.type = Blur
      /\ current.value \in Open
      /\ ev.refs.popover # NullEl
      /\ ev.relatedTarget # NullEl
      /\ ~InsidePopover(ev.relatedTarget)
      /\ ev.relatedTarget # "list"
      /\ ev.activeElement # ev.refs.list )
    => ( /\ state = Idle
         /\ ctx = [before EXCEPT !.typeaheadQuery = NullQuery] )

\* C1 witness: a Blur to the page body, with a child of the popover still
\* reported active, closed an open listbox that held a typeahead query.
C1_Witness ==
    /\ ev.type = Blur
    /\ current.value = NavigatingWithKeys
    /\ ev.relatedTarget = "body"
    /\ ev.activeElement = "inner"
    /\ ev.refs = Mounted
    /\ before.typeaheadQuery = <<"b">>
    /\ state = Idle
    /\ ctx.typeaheadQuery = NullQuery

\* C2 as stated: Blur in an open state takes the first guard that holds:
\* lost focus -> Idle, query cleared; else a tracked option is focused ->
\* Navigating, query untouched; else -> Interacting, query cleared.
C2_AsStated ==
    (ev.type = Blur /\ current.value \in Open) =>
        IF listboxLostFocus(before, ev)
        THEN state = Idle /\ ctx.typeaheadQuery = NullQuery
        ELSE IF optionIsActive(before, ev)
        THEN state = Navigating /\ ctx.typeaheadQuery = before.typeaheadQuery
        ELSE state = Interacting /\ ctx.typeaheadQuery = NullQuery

\* C2, amended: the same ordered cascade, except that the option-is-active
\* branch lands in Navigating only from Interacting and Navigating; from
\* NavigatingWithKeys and Searching it keeps the current state. In every
\* branch nothing but typeaheadQuery changes in the context.
C2_BlurCascade ==
    (ev.type = Blur /\ current.value \in Open) =>
        IF listboxLostFocus(before, ev)
        THEN state = Idle /\ ctx = [before EXCEPT !.typeaheadQuery = NullQuery]
        ELSE IF optionIsActive(before, ev)
        THEN /\ state = IF current.value = Interacting THEN Navigating ELSE current.value
             /\ ctx = before
        ELSE state = Interacting /\ ctx = [before EXCEPT !.typeaheadQuery = NullQuery]

\* C2 witness: the lost-focus branch was taken although a tracked option
\* was the active element.
C2_Witness ==
    /\ ev.type = Blur
    /\ current.value = Navigating
    /\ listboxLostFocus(before, ev)
    /\ optionIsActive(before, ev)
    /\ before.typeaheadQuery # NullQuery
    /\ state = Idle
    /\ ctx.typeaheadQuery = NullQuery

\* C3: in an open state, OptionFinishClick, KeyDownEnter or KeyDownSpace with
\* navigationValue non-null and the event not disabled commits: the state is
\* Idle, value is the event's value, typeaheadQuery is null and the event's
\* callback was called exactly once, with the event's value.
C3_SelectableCommits ==
    ( /\ ev.type \in SelectTypes
      /\ current.value \in Open
      /\ before.navigationValue # Null
      /\ ~ev.disabled )
    => ( /\ state = Idle
         /\ ctx.value = ev.value
         /\ ctx.typeaheadQuery = NullQuery
         /\ CalledOnceWith(ev.value) )

\* C3 witness: Enter in Searching committed a value that was neither the
\* old value nor the highlighted one, and called back with it.
C3_Witness ==
    /\ ev.type = KeyDownEnter
    /\ ev.callback
    /\ current.value = Searching
    /\ before.navigationValue \notin {Null, ev.value}
    /\ before.value # ev.value
    /\ before.typeaheadQuery # NullQuery
    /\ state = Idle
    /\ ctx.value = ev.value
    /\ calls = <<ev.value>>

\* C4: in an open state, OptionFinishClick, KeyDownEnter or KeyDownSpace with
\* navigationValue null, or with disabled set, is blocked: state, value,
\* navigationValue and typeaheadQuery are unchanged and no callback is called.
C4_BlockedSelection ==
    ( /\ ev.type \in SelectTypes
      /\ current.value \in Open
      /\ (before.navigationValue = Null \/ ev.disabled) )
    => ( /\ state = current.value
         /\ ctx.value = before.value
         /\ ctx.navigationValue = before.navigationValue
         /\ ctx.typeaheadQuery = before.typeaheadQuery
         /\ calls = <<>> )

\* C4 witness: a disabled option was clicked while another option was
\* highlighted, and nothing happened.
C4_Witness ==
    /\ ev.type = OptionFinishClick
    /\ ev.disabled
    /\ ev.callback
    /\ current.value = Navigating
    /\ before.navigationValue # Null
    /\ before.value # ev.value
    /\ state = Navigating
    /\ ctx = before
    /\ calls = <<>>

\* C5 as stated: across one transition value changes only if the event is
\* ValueChange, a commit event that passes the guard in an open state, or
\* UpdateAfterTypeahead in Idle; every other event leaves value unchanged.
C5_AsStated ==
    (ev # NoEvent /\ ctx.value # before.value) =>
        \/ ev.type = ValueChange
        \/ /\ ev.type \in SelectTypes
           /\ current.value \in Open
           /\ before.navigationValue # Null
           /\ ~ev.disabled
        \/ ev.type = UpdateAfterTypeahead /\ current.value = Idle

\* C5, amended: value changes only through ValueChange, a commit event that
\* passes the guard in an open state, UpdateAfterTypeahead in Idle, or a
\* GetDerivedData whose payload carries a value field; every other event in
\* every state leaves value unchanged.
C5_ValueChangesOnlyByCommit ==
    (ev # NoEvent /\ ctx.value # before.value) =>
        \/ ev.type = ValueChange
        \/ /\ ev.type \in SelectTypes
           /\ current.value \in Open
           /\ before.navigationValue # Null
           /\ ~ev.disabled
        \/ ev.type = UpdateAfterTypeahead /\ current.value = Idle
        \/ ev.type = GetDerivedData /\ "value" \in ev.data.has

\* C5 witness: Escape closed a listbox whose highlighted option had been
\* moved away from the committed value, and the value stayed.
C5_Witness ==
    /\ ev.type = KeyDownEscape
    /\ current.value = Navigating
    /\ before.value # Null
    /\ before.navigationValue \notin {Null, before.value}
    /\ state = Idle
    /\ ctx.value = before.value

\* C6: in Idle, UpdateAfterTypeahead with a non-empty query sets value to the
\* value of the first option, in options order, that is enabled and whose
\* label starts with the query without regard to case (a disabled match
\* ahead of it is skipped), calls the event's callback exactly once with that
\* value, and leaves the state Idle and navigationValue unchanged.
C6_IdleTypeaheadCommitsFirstMatch ==
    (ev.type = UpdateAfterTypeahead /\ current.value = Idle) =>
        \A i \in DOMAIN before.options :
            FirstEnabledMatch(before.options, ev.query, i) =>
                /\ state = Idle
                /\ ctx = [before EXCEPT !.value = before.options[i].value]
                /\ CalledOnceWith(before.options[i].value)

\* C6 witness: with options Ap=1 and Ba=2, KeyDownSearch "b" and then
\* UpdateAfterTypeahead "b" gave value 2 and callback(2).
C6_Witness ==
    /\ ev.type = UpdateAfterTypeahead
    /\ ev.query = <<"b">>
    /\ ev.callback
    /\ current.value = Idle
    /\ before.options = AppleBanana
    /\ before.typeaheadQuery = <<"b">>
    /\ before.value # 2
    /\ state = Idle
    /\ ctx.value = 2
    /\ calls = <<2>>

\* C7: in an open state, UpdateAfterTypeahead never changes the state or
\* value; the only context field it may change is navigationValue, which
\* then becomes the value of the first enabled option whose label starts
\* with the query without regard to case.
C7_OpenTypeaheadOnlyNavigates ==
    (ev.type = UpdateAfterTypeahead /\ current.value \in Open) =>
        /\ state = current.value
        /\ ctx = [before EXCEPT !.navigationValue = ctx.navigationValue]
        /\ ctx.navigationValue # before.navigationValue =>
              \E i \in DOMAIN before.options :
                  /\ FirstEnabledMatch(before.options, ev.query, i)
                  /\ ctx.navigationValue = before.options[i].value

\* C7 witness: in Searching a query moved the highlight past a disabled
\* match to the first enabled one, and value stayed.
C7_Witness ==
    /\ ev.type = UpdateAfterTypeahead
    /\ current.value = Searching
    /\ before.options = DisabledFirst
    /\ ev.query = <<"B">>
    /\ before.navigationValue = 1
    /\ before.value = 1
    /\ state = Searching
    /\ ctx.navigationValue = 2
    /\ ctx.value = 1

\* C8 as stated: whenever an UpdateAfterTypeahead resolves to a matching
\* option, in Idle and in every open state alike, the event's callback, if
\* present, is called with the matched option's value.
C8_AsStated ==
    (ev.type = UpdateAfterTypeahead /\ ev.callback) =>
        \A i \in DOMAIN before.options :
            FirstEnabledMatch(before.options, ev.query, i) =>
                calls = <<before.options[i].value>>

\* C8, amended: when an UpdateAfterTypeahead resolves to a matching option,
\* Idle calls the event's callback, if present, once with the matched value
\* while committing it; the open states call no callback: Navigating,
\* NavigatingWithKeys and Searching only set navigationValue to the matched
\* value, and Interacting ignores the event.
C8_TypeaheadCallbackOnlyInIdle ==
    ev.type = UpdateAfterTypeahead =>
        \A i \in DOMAIN before.options :
            FirstEnabledMatch(before.options, ev.query, i) =>
                /\ current.value = Idle =>
                      /\ CalledOnceWith(before.options[i].value)
                      /\ ctx.value = before.options[i].value
                /\ current.value \in Open =>
                      /\ calls = <<>>
                      /\ ctx.value = before.value
                /\ current.value \in Open \ {Interacting} =>
                      ctx.navigationValue = before.options[i].value
                /\ current.value = Interacting => ctx = before

\* C8 witness: in Navigating a typeahead event carrying a callback resolved
\* to an option, moved the highlight to it, and called nothing.
C8_Witness ==
    /\ ev.type = UpdateAfterTypeahead
    /\ ev.callback
    /\ current.value = Navigating
    /\ before.options = AppleBanana
    /\ ev.query = <<"b">>
    /\ before.navigationValue = 1
    /\ ctx.navigationValue = 2
    /\ calls = <<>>

\* The query as setTypeahead reads it: null is the empty string.
QueryText(query) == IF query = NullQuery THEN <<>> ELSE query

\* C9 as stated: KeyDownSearch appends its characters to the end of
\* typeaheadQuery (null read as empty) and changes neither value nor
\* navigationValue; an UpdateAfterTypeahead whose query is empty or matches
\* no enabled option leaves value, navigationValue and typeaheadQuery
\* unchanged and calls no callback.
C9_AsStated ==
    /\ ev.type = KeyDownSearch =>
          /\ ctx.typeaheadQuery = QueryText(before.typeaheadQuery) \o ev.query
          /\ ctx.value = before.value
          /\ ctx.navigationValue = before.navigationValue
    /\ (ev.type = UpdateAfterTypeahead /\ NoEnabledMatch(before.options, ev.query)) =>
          /\ ctx.value = before.value
          /\ ctx.navigationValue = before.navigationValue
          /\ ctx.typeaheadQuery = before.typeaheadQuery
          /\ calls = <<>>

\* C9, amended: in Idle, Navigating, NavigatingWithKeys and Searching a
\* KeyDownSearch appends its characters to the end of typeaheadQuery (null
\* read as empty) and changes nothing else in the context; Interacting
\* declares no KeyDownSearch and leaves the whole context unchanged. An
\* UpdateAfterTypeahead whose query is empty or matches no enabled option
\* leaves state and context unchanged and calls no callback.
C9_TypeaheadWithoutMatchIsHarmless ==
    /\ (ev.type = KeyDownSearch /\ current.value # Interacting) =>
          ctx = [before EXCEPT !.typeaheadQuery =
                                    QueryText(before.typeaheadQuery) \o ev.query]
    /\ (ev.type = KeyDownSearch /\ current.value = Interacting) =>
          (ctx = before /\ state = Interacting)
    /\ (ev.type = UpdateAfterTypeahead /\ NoEnabledMatch(before.options, ev.query)) =>
          /\ state = current.value
          /\ ctx = before
          /\ calls = <<>>

\* C9 witness: a second search key was appended after the first while no
\* option label starts with the query.
C9_Witness ==
    /\ ev.type = KeyDownSearch
    /\ ev.query = <<"B">>
    /\ before.typeaheadQuery = <<"b">>
    /\ before.options = AppleBanana
    /\ before.value = 1
    /\ before.navigationValue = 2
    /\ ctx.typeaheadQuery = <<"b", "B">>
    /\ NoEnabledMatch(ctx.options, ctx.typeaheadQuery)
    /\ ctx.value = 1
    /\ ctx.navigationValue = 2

\* C10: from every open state, Navigate with value V lands in Navigating
\* with navigationValue = V, whatever navigationValue was; from
\* NavigatingWithKeys too.
C10_NavigateLandsInNavigating ==
    (ev.type = Navigate /\ current.value \in Open) =>
        /\ state = Navigating
        /\ ctx.navigationValue = ev.value

\* C10 witness: in NavigatingWithKeys, with another option highlighted,
\* Navigate moved the highlight and the machine to Navigating.
C10_Witness ==
    /\ ev.type = Navigate
    /\ current.value = NavigatingWithKeys
    /\ before.navigationValue \notin {Null, ev.value}
    /\ state = Navigating
    /\ ctx.navigationValue = ev.value

\* C11: in each of the five states GetDerivedData keeps the state and calls
\* nothing; every context field the payload carries takes the payload's
\* value, every field it does not carry is unchanged, and refs is merged
\* handle by handle in the same way.
C11_DerivedDataMergesIntoContext ==
    ev.type = GetDerivedData =>
        /\ state = current.value
        /\ calls = <<>>
        /\ \A k \in {"value", "options", "navigationValue", "typeaheadQuery"} :
              ctx[k] = IF k \in ev.data.has THEN ev.data[k] ELSE before[k]
        /\ \A r \in {"button", "input", "list", "popover"} :
              ctx.refs[r] = IF "refs" \in ev.data.has /\ r \in ev.data.refs.has
                            THEN ev.data.refs[r]
                            ELSE before.refs[r]

\* C11 witness: while navigating, a payload carrying only the list handle
\* was merged into a context that already held the button handle, options
\* and a highlighted option.
C11_Witness ==
    /\ ev.type = GetDerivedData
    /\ current.value = Navigating
    /\ ev.data.has = {"refs"}
    /\ ev.data.refs.has = {"list"}
    /\ before.refs.button = "button"
    /\ before.refs.list = NullEl
    /\ before.options # <<>>
    /\ before.navigationValue # Null
    /\ state = Navigating
    /\ ctx.refs.button = "button"
    /\ ctx.refs.list = "list"
    /\ ctx.options = before.options

\* The event types the listing of C12 names as undeclared in a state.
ListedUndeclared(value, type) ==
    \/ type \in { KeyDownTab, KeyDownShiftTab, OptionMouseEnter, OptionStartClick,
                  PopoverPointerDown, PopoverPointerUp }
    \/ /\ value = Idle
       /\ type \in {Blur, Navigate, KeyDownEnter, KeyDownEscape, ClearNavSelection}
    \/ value # Navigating /\ type = ButtonMouseUp

\* C12: an event whose type the current state does not declare (those the
\* listing names, and any other type with no entry in the state's table) is
\* a strict no-op: state and context are as before, no callback is called,
\* no focus action is executed and no focus callback is requested.
C12_UndeclaredEventIsNoOp ==
    ( /\ ev # NoEvent
      /\ \/ ListedUndeclared(current.value, ev.type)
         \/ states(current.value, ev.type) = <<>> )
    => ( /\ state = current.value
         /\ ctx = before
         /\ calls = <<>>
         /\ effects = <<>>
         /\ frames = <<>> )

\* C12 witness: a Blur that would have closed an open listbox reached the
\* closed one, which held a typeahead query, and nothing changed.
C12_Witness ==
    /\ ev.type = Blur
    /\ current.value = Idle
    /\ listboxLostFocus(before, ev)
    /\ before.typeaheadQuery \notin {NullQuery, <<>>}
    /\ before.options # <<>>
    /\ state = Idle
    /\ ctx = before
    /\ effects = <<>>

\* C13: in every state ValueChange sets value to the event's value and calls
\* the event's callback, when it carries one, exactly once with that value;
\* the state and the rest of the context (navigationValue, typeaheadQuery,
\* options, refs) are unchanged.
C13_ValueChangeAssignsAndCallsBack ==
    ev.type = ValueChange =>
        /\ state = current.value
        /\ ctx = [before EXCEPT !.value = ev.value]
        /\ CalledOnceWith(ev.value)

\* C13 witness: while navigating with keys, a ValueChange carrying a callback
\* replaced the value with one that was neither the old value nor the
\* highlighted one.
C13_Witness ==
    /\ ev.type = ValueChange
    /\ ev.callback
    /\ current.value = NavigatingWithKeys
    /\ before.value \notin {Null, ev.value}
    /\ before.navigationValue \notin {Null, ev.value}
    /\ before.typeaheadQuery \notin {NullQuery, <<>>}
    /\ state = NavigatingWithKeys
    /\ ctx.value = ev.value
    /\ ctx.navigationValue = before.navigationValue
    /\ calls = <<ev.value>>

\* C14 as stated: the deferred focus never applies a stale target. Every
\* node the animation frame that has just run called focus() on is the node
\* of the option navigationValue names in the context at the time the frame
\* ran; after Navigate(A) then Navigate(B) with no frame in between, no
\* callback focuses option A.
C14_AsStated ==
    \A i \in DOMAIN focusCalls :
        focusCalls[i] = getNavigationNodeFromValue(ctx, ctx.navigationValue)

\* C14 scenario: with options Ap=1 and Ba=2, Navigate(1) and Navigate(2)
\* were delivered before any frame ran; the frame then focused option 1's
\* node and after it option 2's.
C14_Witness ==
    /\ state = Navigating
    /\ ctx.options = AppleBanana
    /\ ctx.navigationValue = 2
    /\ focusCalls = <<"o1", "o2">>

\* C15 as stated: a Blur arriving in an open state with no popover handle
\* (event.refs.popover is null) counts as focus having left: the machine
\* goes to Idle and typeaheadQuery is cleared.
C15_AsStated ==
    ( /\ ev.type = Blur
      /\ current.value \in Open
      /\ ev.refs.popover = NullEl )
    => ( /\ state = Idle
         /\ ctx.typeaheadQuery = NullQuery )

\* C15 scenario: focus went to the page body while the popover handle was
\* missing, and the listbox stayed open, in Interacting.
C15_Witness ==
    /\ ev.type = Blur
    /\ current.value = Navigating
    /\ ev.refs.popover = NullEl
    /\ ev.relatedTarget = "body"
    /\ ev.activeElement = "body"
    /\ ~listboxLostFocus(before, ev)
    /\ state = Interacting

\* typeaheadQuery holds no characters: it is null or the empty string.
Cleared(query) == query \in {NullQuery, <<>>}

\* C16 as stated: after every accepted Navigate or KeyDownNavigate, in
\* whichever state it is accepted, typeaheadQuery is cleared; each
\* KeyDownSearch yields a query that has the previous query as a prefix.
C16_AsStated ==
    /\ ( /\ ev.type \in {Navigate, KeyDownNavigate}
         /\ states(current.value, ev.type) # <<>> )
       => Cleared(ctx.typeaheadQuery)
    /\ ev.type = KeyDownSearch =>
          startsWith(QueryText(ctx.typeaheadQuery), QueryText(before.typeaheadQuery))

\* C16, amended: KeyDownNavigate, accepted in all five states, sets
\* typeaheadQuery to null. Navigate sets it to null only in Searching; in
\* Interacting, Navigating and NavigatingWithKeys it leaves typeaheadQuery
\* as it was (and Idle does not accept it). Each KeyDownSearch yields a
\* query that has the previous query as a prefix.
C16_OnlyKeyDownNavigateClearsQuery ==
    /\ ev.type = KeyDownNavigate => ctx.typeaheadQuery = NullQuery
    /\ (ev.type = Navigate /\ current.value = Searching) =>
          ctx.typeaheadQuery = NullQuery
    /\ (ev.type = Navigate /\ current.value # Searching) =>
          ctx.typeaheadQuery = before.typeaheadQuery
    /\ ev.type = KeyDownSearch =>
          startsWith(QueryText(ctx.typeaheadQuery), QueryText(before.typeaheadQuery))

\* C16 witness: two search keys had built the query "bB" while navigating
\* with keys; a pointer Navigate then moved the highlight and the machine to
\* Navigating, and the query was still "bB".
C16_Witness ==
    /\ ev.type = Navigate
    /\ current.value = NavigatingWithKeys
    /\ before.typeaheadQuery = <<"b", "B">>
    /\ before.navigationValue # ev.value
    /\ state = Navigating
    /\ ctx.navigationValue = ev.value
    /\ ctx.typeaheadQuery = <<"b", "B">>

\* C17 as stated: in each of Interacting, Navigating, NavigatingWithKeys and
\* Searching, KeyDownSearch moves to NavigatingWithKeys and appends the typed
\* character to typeaheadQuery, and ClearTypeahead clears the query while
\* staying in the current state.
C17_AsStated ==
    /\ (ev.type = KeyDownSearch /\ current.value \in Open) =>
          /\ state = NavigatingWithKeys
          /\ ctx.typeaheadQuery = QueryText(before.typeaheadQuery) \o ev.query
    /\ (ev.type = ClearTypeahead /\ current.value \in Open) =>
          /\ state = current.value
          /\ Cleared(ctx.typeaheadQuery)

\* C17, amended: Navigating, NavigatingWithKeys and Searching share the
\* search handling: KeyDownSearch moves to NavigatingWithKeys and appends the
\* typed character to typeaheadQuery, and ClearTypeahead sets the query to
\* the empty string while staying in the current state; neither changes
\* anything else in the context. Interacting declares neither event: there
\* both leave state and context, typeaheadQuery included, unchanged.
C17_SearchHandlingOutsideInteracting ==
    /\ (ev.type = KeyDownSearch /\ current.value \in Open \ {Interacting}) =>
          /\ state = NavigatingWithKeys
          /\ ctx = [before EXCEPT !.typeaheadQuery =
                                    QueryText(before.typeaheadQuery) \o ev.query]
    /\ (ev.type = ClearTypeahead /\ current.value \in Open \ {Interacting}) =>
          /\ state = current.value
          /\ ctx = [before EXCEPT !.typeaheadQuery = <<>>]
    /\ (ev.type \in {KeyDownSearch, ClearTypeahead} /\ current.value = Interacting) =>
          /\ state = Interacting
          /\ ctx = before

\* C17 witness: a search key pressed while navigating with the pointer moved
\* the machine to NavigatingWithKeys and extended the query.
C17_Witness ==
    /\ ev.type = KeyDownSearch
    /\ current.value = Navigating
    /\ before.typeaheadQuery = <<"B">>
    /\ ev.query = <<"b">>
    /\ state = NavigatingWithKeys
    /\ ctx.typeaheadQuery = <<"B", "b">>

\* Some option of the list carries the value.
InOptions(options, value) == \E i \in DOMAIN options : options[i].value = value

OnlySearchingTargetsSearching ==
    \A value \in ListboxStates, type \in ListboxEvents :
        \A i \in DOMAIN states(value, type) :
            states(value, type)[i].target = Searching =>
                /\ value = Searching
                /\ type = Blur
                /\ states(value, type)[i].cond = "optionIsActive"

\* C20: started in Idle, the machine is never in Searching: in the table the
\* only transition with target Searching is the optionIsActive branch of
\* Searching's own Blur. Interacting is entered only by the fall-through
\* branch of Blur (neither guard held). So the machine is always in Idle,
\* Navigating, NavigatingWithKeys or Interacting, and from each of the
\* three open ones KeyDownEscape and ButtonMouseDown lead back to Idle.
C20_SearchingUnreachable ==
    /\ state \in {Idle, Navigating, NavigatingWithKeys, Interacting}
    /\ OnlySearchingTargetsSearching
    /\ (state = Interacting /\ current.value # Interacting) =>
          /\ ev.type = Blur
          /\ ~listboxLostFocus(before, ev)
          /\ ~optionIsActive(before, ev)
    /\ ( /\ ev.type \in {KeyDownEscape, ButtonMouseDown}
         /\ current.value \in {Navigating, NavigatingWithKeys, Interacting} )
       => state = Idle

\* C20 witness: Interacting, with options registered and an option
\* highlighted, was left for Idle by Escape.
C20_Witness ==
    /\ ev.type = KeyDownEscape
    /\ current.value = Interacting
    /\ before.options # <<>>
    /\ before.typeaheadQuery = NullQuery
    /\ before.navigationValue # Null
    /\ state = Idle

====
